---- MODULE Spec2Model ----
(***************************************************************************)
(* AirLife ETL pipeline: extract (CSV, OpenSky API), transform (pandas     *)
(* cleaning), load (PostgreSQL through DataFrame.to_sql) and verify.       *)
(*                                                                         *)
(* A DataFrame is a record of its column labels and its rows; a cell is a  *)
(* tagged record:                                                          *)
(*   [t |-> "nan"]                 float NaN                               *)
(*   [t |-> "none"]                Python None in an object column         *)
(*   [t |-> "num", m, p]           the number m * 3.28084^p (exact; the    *)
(*                                 power is kept symbolic so that repeated *)
(*                                 conversions stay representable)         *)
(*   [t |-> "str", s]              a string, as its sequence of characters *)
(***************************************************************************)
EXTENDS Integers, Sequences, FiniteSets, TLC

VARIABLES pc, airports, flights, clean_airports_data, clean_flights_data,
          db, log

vars == <<pc, airports, flights, clean_airports_data, clean_flights_data,
          db, log>>

---------------------------------------------------------------------------
(* Bounds of the model *)

\* longest sample batch handed to the cleaning functions on their own
MaxLen == 2

\* longest batch an extraction returns in a pipeline run
MaxRows == 2

---------------------------------------------------------------------------
(* Cells *)

NaN == [t |-> "nan"]

None == [t |-> "none"]

Num(n) == [t |-> "num", m |-> n, p |-> 0]

Str(s) == [t |-> "str", s |-> s]

\* pandas.isna on one cell
isna(c) == c.t \in {"nan", "none"}

\* c >= k and c <= k on a numeric column: any comparison with NaN is False
ge(c, k) == c.t = "num" /\ c.p = 0 /\ c.m >= k

le(c, k) == c.t = "num" /\ c.p = 0 /\ c.m <= k

Digits == <<"0", "1", "2", "3", "4", "5", "6", "7", "8", "9">>

IsDigit(ch) == \E i \in 1..10 : Digits[i] = ch

DigitValue(ch) == (CHOOSE i \in 1..10 : Digits[i] = ch) - 1

RECURSIVE ParseDigits(_)
ParseDigits(s) ==
    IF s = <<>> THEN 0
    ELSE 10 * ParseDigits(SubSeq(s, 1, Len(s) - 1)) + DigitValue(s[Len(s)])

\* pd.to_numeric(column, errors='coerce') on one cell: numbers stay, a string
\* of digits is parsed, everything else becomes NaN
to_numeric(c) ==
    CASE c.t = "num" -> c
      [] c.t = "str" ->
            IF c.s # <<>> /\ \A i \in 1..Len(c.s) : IsDigit(c.s[i])
            THEN Num(ParseDigits(c.s))
            ELSE NaN
      [] OTHER -> NaN

\* 3.28084, in units of 10^-5
FEET_PER_METER_E5 == 328084

\* column * 3.28084 on one cell (NaN stays NaN, 0 stays 0)
times_feet_per_meter(c) ==
    IF c.t # "num" THEN NaN
    ELSE IF c.m = 0 THEN c
    ELSE [c EXCEPT !.p = @ + 1]

\* the value of a once-converted cell, in units of 10^-5 feet
ValueE5(c) == c.m * FEET_PER_METER_E5

\* column.astype(str) on one cell of an object column
astype_str(c) ==
    CASE c.t = "str" -> c
      [] c.t = "none" -> Str(<<"N", "o", "n", "e">>)
      [] c.t = "nan" -> Str(<<"n", "a", "n">>)

RECURSIVE lstrip(_)
lstrip(s) == IF s # <<>> /\ Head(s) = " " THEN lstrip(Tail(s)) ELSE s

RECURSIVE rstrip(_)
rstrip(s) ==
    IF s # <<>> /\ s[Len(s)] = " " THEN rstrip(SubSeq(s, 1, Len(s) - 1)) ELSE s

\* column.str.strip() on one cell
str_strip(c) == Str(rstrip(lstrip(c.s)))

---------------------------------------------------------------------------
(* DataFrames *)

\* pd.DataFrame(): no columns, no rows
EmptyFrame == [columns |-> <<>>, rows |-> <<>>]

\* DataFrame.empty: some axis has length 0
empty(df) == Len(df.columns) = 0 \/ Len(df.rows) = 0

has_column(df, name) == \E i \in 1..Len(df.columns) : df.columns[i] = name

\* The labels of the airport CSV when its 14 columns are named by position.
\* An airport row carries the cells the pipeline reads: index (the row
\* label), latitude, longitude, iata (the cell of the IATA column, whichever
\* of "iata" / "iata_code" the frame calls it) and altitude.
airport_expected_columns ==
    <<"id", "name", "city", "country", "iata", "icao", "latitude",
      "longitude", "altitude", "timezone", "dst", "tz_database_time_zone",
      "type", "source">>

\* The labels clean_flights gives the 17 positional OpenSky fields.  A flight
\* row carries index and the cells at positions 2, 6, 7, 8: callsign,
\* longitude, latitude, altitude.
expected_columns ==
    <<"icao24", "callsign", "origin_country", "time_position",
      "last_contact", "longitude", "latitude", "altitude", "on_ground",
      "velocity", "true_track", "vertical_rate", "sensors", "geo_altitude",
      "squawk", "spi", "position_source">>

LAT_MIN == -90

LAT_MAX == 90

LON_MIN == -180

LON_MAX == 180

\* df.dropna(subset=['latitude', 'longitude'])
dropna_coordinates(rows) ==
    SelectSeq(rows, LAMBDA r : ~isna(r.latitude) /\ ~isna(r.longitude))

latitude_mask_no_upper(r) == ge(r.latitude, LAT_MIN)

\* (df['latitude'] >= -90) & (df['latitude'] <= 90)
latitude_mask(r) == ge(r.latitude, LAT_MIN) /\ le(r.latitude, LAT_MAX)

longitude_mask_strict(r) ==
    ge(r.longitude, LON_MIN) /\ le(r.longitude, LON_MAX - 1)

\* (df['longitude'] >= -180) & (df['longitude'] <= 180)
longitude_mask(r) == ge(r.longitude, LON_MIN) /\ le(r.longitude, LON_MAX)

\* the two boolean-mask selections, latitude first
filter_coordinates(rows) ==
    SelectSeq(SelectSeq(rows, latitude_mask), longitude_mask)

\* the values df['iata_code'].replace([...], None) looks for
iata_sentinels == {<<>>, <<"N">>, <<"\\", "N">>}

is_sentinel(c) == c.t = "str" /\ c.s \in iata_sentinels

\* replace(list, None) read as "no value given": each match takes the cell
\* above it (forward fill), the first row keeps its own
replace_iata_pad(rows) ==
    LET F[i \in 0..Len(rows)] ==
            IF i = 0 THEN <<>>
            ELSE Append(F[i - 1],
                        IF is_sentinel(rows[i].iata) /\ i > 1
                        THEN [rows[i] EXCEPT !.iata = F[i - 1][i - 1].iata]
                        ELSE rows[i])
    IN F[Len(rows)]

\* df['iata_code'].replace(['', 'N', '\\N'], None): every matching cell
\* becomes None
replace_iata(rows) ==
    [i \in 1..Len(rows) |->
        IF is_sentinel(rows[i].iata) THEN [rows[i] EXCEPT !.iata = None]
        ELSE rows[i]]

\* clean_airports: ret is the frame returned, raised tells a KeyError left
\* the function instead, arg is the caller's frame after the call
clean_airports(airports_df) ==
    IF empty(airports_df)
    THEN [ret |-> airports_df, raised |-> FALSE, arg |-> airports_df]
    ELSE IF ~(has_column(airports_df, "latitude")
              /\ has_column(airports_df, "longitude"))
    THEN [ret |-> EmptyFrame, raised |-> TRUE, arg |-> airports_df]
    ELSE
      LET df == airports_df
          kept == filter_coordinates(dropna_coordinates(df.rows))
          coded == IF has_column(df, "iata_code") THEN replace_iata(kept)
                   ELSE kept
          numbered ==
              IF has_column(df, "altitude")
              THEN [i \in 1..Len(coded) |->
                       [coded[i] EXCEPT !.altitude = to_numeric(@)]]
              ELSE coded
      IN [ret |-> [columns |-> df.columns, rows |-> numbered],
          raised |-> FALSE,
          arg |-> airports_df]

columns_match_at_least(df) == Len(df.columns) >= Len(expected_columns)

\* df.shape[1] == len(expected_columns)
columns_match(df) == Len(df.columns) = Len(expected_columns)

altitude_unconverted(c) == to_numeric(c)

altitude_zero_filled(c) ==
    IF to_numeric(c) = NaN THEN Num(0) ELSE times_feet_per_meter(to_numeric(c))

\* pd.to_numeric(df['altitude'], errors='coerce') * 3.28084
altitude_to_feet(c) == times_feet_per_meter(to_numeric(c))

\* clean_flights, with the same result fields as clean_airports
clean_flights(flights_df) ==
    IF empty(flights_df)
    THEN [ret |-> flights_df, raised |-> FALSE, arg |-> flights_df]
    ELSE IF ~columns_match(flights_df)
    THEN [ret |-> EmptyFrame, raised |-> FALSE, arg |-> flights_df]
    ELSE
      LET kept == filter_coordinates(dropna_coordinates(flights_df.rows))
          out == [i \in 1..Len(kept) |->
                     [kept[i] EXCEPT
                        !.altitude = altitude_to_feet(@),
                        !.callsign = str_strip(astype_str(@))]]
      IN [ret |-> [columns |-> expected_columns, rows |-> out],
          raised |-> FALSE,
          arg |-> flights_df]

---------------------------------------------------------------------------
(* The sample batches of the transformation self-test *)

\* the labels of the self-test's airport frame
sample_airport_columns ==
    <<"name", "city", "country", "latitude", "longitude", "iata_code",
      "altitude">>

\* an airport file with its own header and no coordinate columns
foreign_columns == <<"ident", "label">>

\* range labels 0 .. n-1 of a frame built from bare lists
range_columns(n) == [i \in 1..n |-> ToString(i - 1)]

LatCells == {NaN, Num(LAT_MIN - 1), Num(LAT_MIN), Num(LAT_MAX), Num(LAT_MAX + 1)}

LonCells == {NaN, Num(LON_MIN - 1), Num(LON_MIN), Num(LON_MAX), Num(LON_MAX + 1)}

\* (latitude, longitude) pairs: each coordinate over its cells beside a good
\* one, and two pairs with both coordinates bad
CoordinatePairs ==
    {<<la, Num(2)>> : la \in LatCells} \cup {<<Num(48), lo>> : lo \in LonCells}
        \cup {<<NaN, NaN>>, <<Num(LAT_MAX + 1), Num(LON_MIN - 1)>>}

IataCells == {Str(<<>>), Str(<<"N">>), Str(<<"\\", "N">>), Str(<<"T", "S", "T">>)}

AirportAltitudeCells == {Num(100), Str(<<"2", "0", "0">>), Str(<<"b", "a", "d">>)}

SampleAirportRows ==
    {[latitude |-> c[1], longitude |-> c[2], iata |-> Str(<<"T", "S", "2">>),
      altitude |-> Num(100)] : c \in CoordinatePairs}
    \cup
    {[latitude |-> Num(48), longitude |-> Num(2), iata |-> i, altitude |-> a] :
        i \in IataCells, a \in AirportAltitudeCells}

CallsignCells == {None, Str(<<" ", "F", "L", " ", " ">>), Str(<<"F", "L">>)}

FlightAltitudeCells == {Num(1000), Num(0), None, Str(<<"b", "a", "d">>)}

SampleFlightRows ==
    {[latitude |-> c[1], longitude |-> c[2], callsign |-> Str(<<"F", "L">>),
      altitude |-> Num(500)] : c \in CoordinatePairs}
    \cup
    {[latitude |-> Num(50), longitude |-> Num(10), callsign |-> s,
      altitude |-> a] : s \in CallsignCells, a \in FlightAltitudeCells}

\* all sequences of at most n elements of pool
Batches(pool, n) == UNION {[1..k -> pool] : k \in 0..n}

\* a DataFrame built from bare rows: the index is 0 .. len-1
frame(columns, bare) ==
    [columns |-> columns,
     rows |-> [i \in 1..Len(bare) |->
                  [index |-> i - 1] @@ bare[i]]]

SampleAirportFrames ==
    {frame(c, b) : c \in {sample_airport_columns, airport_expected_columns,
                           foreign_columns},
                   b \in Batches(SampleAirportRows, MaxLen)}

SampleFlightFrames ==
    {frame(range_columns(n), b) :
        n \in {Len(expected_columns) - 1, Len(expected_columns),
               Len(expected_columns) + 1},
        b \in Batches(SampleFlightRows, MaxLen)}

\* a database table: absent, or its column labels and rows
Absent == [t |-> "absent"]

Table(columns, rows) == [t |-> "table", columns |-> columns, rows |-> rows]

\* The self-test starts from one sample frame: an airport frame or a flight
\* frame, the other kind left empty.
InitClean ==
    /\ pc = "sample"
    /\ \/ airports \in SampleAirportFrames /\ flights = EmptyFrame
       \/ airports = EmptyFrame /\ flights \in SampleFlightFrames
    /\ clean_airports_data = EmptyFrame
    /\ clean_flights_data = EmptyFrame
    /\ db = [airports |-> Absent, flights |-> Absent]
    /\ log = <<>>

\* cleaned = clean(sample) for both kinds; a KeyError ends the self-test
CleanSample ==
    /\ pc = "sample"
    /\ LET a == clean_airports(airports)
           f == clean_flights(flights)
       IN /\ airports' = a.arg
          /\ flights' = f.arg
          /\ clean_airports_data' = a.ret
          /\ clean_flights_data' = f.ret
          /\ pc' = IF a.raised \/ f.raised THEN "raised" ELSE "cleaned"
    /\ UNCHANGED <<db, log>>

\* the cleaned frames are cleaned once more
CleanAgain ==
    /\ pc = "cleaned"
    /\ LET a == clean_airports(clean_airports_data)
           f == clean_flights(clean_flights_data)
       IN /\ airports' = a.arg
          /\ flights' = f.arg
          /\ clean_airports_data' = a.ret
          /\ clean_flights_data' = f.ret
          /\ pc' = IF a.raised \/ f.raised THEN "raised" ELSE "recleaned"
    /\ UNCHANGED <<db, log>>

NextClean == CleanSample \/ CleanAgain

SpecClean == InitClean /\ [][NextClean]_vars

---------------------------------------------------------------------------
(* Extraction *)

\* the rows an airport file or the flight feed holds in a pipeline run
FileAirportRows ==
    {[latitude |-> Num(48), longitude |-> Num(2),
      iata |-> Str(<<"T", "S", "T">>), altitude |-> Num(100)],
     [latitude |-> Num(51), longitude |-> Num(0),
      iata |-> Str(<<"\\", "N">>), altitude |-> Num(200)],
     [latitude |-> Num(LAT_MAX + 1), longitude |-> Num(2),
      iata |-> Str(<<"T", "S", "2">>), altitude |-> Num(100)]}

FeedFlightRows ==
    {[latitude |-> Num(50), longitude |-> Num(10),
      callsign |-> Str(<<"F", "L", " ">>), altitude |-> Num(1000)],
     [latitude |-> Num(45), longitude |-> Num(5),
      callsign |-> None, altitude |-> None],
     [latitude |-> Num(50), longitude |-> Num(LON_MAX + 1),
      callsign |-> Str(<<"F", "L">>), altitude |-> Num(500)]}

\* the batches of at most n different rows of pool
DistinctBatches(pool, n) ==
    {b \in Batches(pool, n) :
        \A i, j \in 1..Len(b) : b[i] = b[j] => i = j}

\* the headers pd.read_csv can find in the airport file: 14 labels taken
\* from its first line, or a header that is not the positional schema
FileHeaders ==
    {range_columns(Len(airport_expected_columns)), foreign_columns}

\* extract_airports on a file that was read: 14 columns are renamed by
\* position, any other header is kept
name_airport_columns(df) ==
    IF Len(df.columns) = Len(airport_expected_columns)
    THEN [df EXCEPT !.columns = airport_expected_columns]
    ELSE df

\* the labels extract_flights gives the positional fields
api_columns == [expected_columns EXCEPT ![8] = "baro_altitude"]

\* pd.DataFrame(states, columns=columns[:len(states[0])] if states else
\* columns) for states rows of `width` fields; more fields than labels is a
\* ValueError
states_frame(states, width) ==
    IF states = <<>> THEN [raised |-> FALSE, ret |-> frame(api_columns, <<>>)]
    ELSE IF width > Len(api_columns) THEN [raised |-> TRUE, ret |-> EmptyFrame]
    ELSE [raised |-> FALSE,
          ret |-> frame(SubSeq(api_columns, 1, width), states)]

Say(msg) == [msg |-> msg]

Count(msg, n) == [msg |-> msg, n |-> n]

Failure(msg, cause) == [msg |-> msg, cause |-> cause]

\* airports = extract_airports(): the file is read or the error is caught
ExtractAirports ==
    /\ pc = "extract_airports"
    /\ \/ /\ airports' = EmptyFrame
          /\ log' = Append(log, Failure("airport_read_error", "file"))
       \/ \E h \in FileHeaders, b \in DistinctBatches(FileAirportRows, MaxRows) :
            /\ airports' = name_airport_columns(frame(h, b))
            /\ log' = Append(log, Count("loaded_airports", Len(b)))
    /\ pc' = "extract_flights"
    /\ UNCHANGED <<flights, clean_airports_data, clean_flights_data, db>>

\* flights = extract_flights(): a network error, a non-200 status and an
\* error while the answer is processed each give an empty frame
ExtractFlights ==
    /\ pc = "extract_flights"
    /\ \/ /\ flights' = EmptyFrame
          /\ \E cause \in {"network", "status", "json"} :
                log' = Append(log, Failure("flight_error", cause))
       \/ \E width \in {Len(api_columns) - 1, Len(api_columns),
                        Len(api_columns) + 1},
             b \in DistinctBatches(FeedFlightRows, MaxRows) :
            LET r == states_frame(b, width)
            IN /\ flights' = r.ret
               /\ log' = Append(log,
                                IF r.raised
                                THEN Failure("flight_error", "frame")
                                ELSE Count("found_flights", Len(b)))
    /\ pc' = "clean_airports"
    /\ UNCHANGED <<airports, clean_airports_data, clean_flights_data, db>>

---------------------------------------------------------------------------
(* Transformation, as main calls it: an exception reaches main's handler *)

CleanAirports ==
    /\ pc = "clean_airports"
    /\ LET r == clean_airports(airports)
       IN /\ airports' = r.arg
          /\ clean_airports_data' = r.ret
          /\ pc' = IF r.raised THEN "failed" ELSE "clean_flights"
          /\ log' = IF r.raised
                    THEN Append(log, Failure("pipeline_failed", "KeyError"))
                    ELSE log
    /\ UNCHANGED <<flights, clean_flights_data, db>>

CleanFlights ==
    /\ pc = "clean_flights"
    /\ LET r == clean_flights(flights)
       IN /\ flights' = r.arg
          /\ clean_flights_data' = r.ret
          /\ pc' = IF r.raised THEN "failed" ELSE "load"
          /\ log' = IF r.raised
                    THEN Append(log, Failure("pipeline_failed", "KeyError"))
                    ELSE log
    /\ UNCHANGED <<airports, clean_airports_data, db>>

---------------------------------------------------------------------------
(* Loading *)

\* a frame's rows as written with index=False
table_rows(df) ==
    [i \in 1..Len(df.rows) |->
        [f \in DOMAIN df.rows[i] \ {"index"} |-> df.rows[i][f]]]

rows_of(table) == IF table.t = "table" THEN table.rows ELSE <<>>

to_sql_append(table, df) == Table(df.columns, rows_of(table) \o table_rows(df))

\* df.to_sql(name, engine, if_exists='replace', index=False) without an
\* error: the old table is dropped and the frame's rows are inserted
to_sql(table, df) == Table(df.columns, table_rows(df))

\* what a failed to_sql can leave: the table as it was (the write rolled
\* back), no table (dropped, not recreated), or the new table without rows
failed_to_sql(table, df) == {table, Absent, Table(df.columns, <<>>)}

load_flights_always(flights_df) == TRUE

\* if not flights_df.empty
should_load_flights(flights_df) == ~empty(flights_df)

after_load_reraise(error) == IF error THEN "failed" ELSE "verify"

\* where main continues after load_to_database: its except clause catches
\* every error, so the call always returns
after_load(error) == "verify"

airports_write_failed_flights_tried(tables, t, flights_df) ==
    [airports |-> t,
     flights |-> IF empty(flights_df) THEN tables.flights
                 ELSE to_sql(tables.flights, flights_df)]

\* the database after the airports to_sql raised and left t: the exception
\* leaves the try block, so the flights to_sql below it is not reached
airports_write_failed(tables, t, flights_df) == [tables EXCEPT !.airports = t]

\* load_to_database(final_airports, final_flights); fault names the write
\* that raises, if one does
LoadToDatabase ==
    /\ pc = "load"
    /\ \/ \E t \in failed_to_sql(db.airports, clean_airports_data) :
            /\ db' = airports_write_failed(db, t, clean_flights_data)
            /\ log' = Append(log, Failure("load_error", "airports"))
            /\ pc' = after_load(TRUE)
       \/ /\ should_load_flights(clean_flights_data)
          /\ \E t \in failed_to_sql(db.flights, clean_flights_data) :
               /\ db' = [airports |-> to_sql(db.airports, clean_airports_data),
                         flights |-> t]
               /\ log' = log \o
                     <<Count("loaded_airports_to_db",
                             Len(clean_airports_data.rows)),
                       Failure("load_error", "flights")>>
               /\ pc' = after_load(TRUE)
       \/ /\ should_load_flights(clean_flights_data)
          /\ db' = [airports |-> to_sql(db.airports, clean_airports_data),
                    flights |-> to_sql(db.flights, clean_flights_data)]
          /\ log' = log \o
                <<Count("loaded_airports_to_db", Len(clean_airports_data.rows)),
                  Count("loaded_flights_to_db", Len(clean_flights_data.rows))>>
          /\ pc' = after_load(FALSE)
       \/ /\ ~should_load_flights(clean_flights_data)
          /\ db' = [db EXCEPT
                      !.airports = to_sql(db.airports, clean_airports_data)]
          /\ log' = log \o
                <<Count("loaded_airports_to_db", Len(clean_airports_data.rows)),
                  Say("no_flight_data_to_load")>>
          /\ pc' = after_load(FALSE)
    /\ UNCHANGED <<airports, flights, clean_airports_data, clean_flights_data>>

---------------------------------------------------------------------------
(* Verification *)

\* LIMIT 3 of the sample queries
SAMPLE_LIMIT == 3

Min(a, b) == IF a <= b THEN a ELSE b

has_columns(table, names) ==
    \A n \in names : \E i \in 1..Len(table.columns) : table.columns[i] = n

\* What verify_data prints for the tables it finds; up tells whether the
\* database answers.  The first failing query ends the report with the
\* error the except clause prints.
verify_report(tables, up) ==
    LET a == tables.airports
        f == tables.flights
        counts == <<Count("airports_count", Len(rows_of(a))),
                    Count("flights_count", Len(rows_of(f)))>>
    IN IF ~up THEN <<Failure("verify_error", "connection")>>
       ELSE IF a.t # "table"
       THEN <<Failure("verify_error", "no_airports_table")>>
       ELSE IF f.t # "table"
       THEN <<counts[1], Failure("verify_error", "no_flights_table")>>
       ELSE IF ~has_columns(a, {"name", "city", "country"})
       THEN counts \o <<Failure("verify_error", "no_airport_column")>>
       ELSE IF Len(f.rows) > 0
       THEN IF ~has_columns(f, {"callsign", "origin_country", "altitude"})
            THEN counts
                   \o <<Count("sample_airports", Min(SAMPLE_LIMIT, Len(a.rows))),
                        Failure("verify_error", "no_flight_column")>>
            ELSE counts
                   \o <<Count("sample_airports", Min(SAMPLE_LIMIT, Len(a.rows))),
                        Count("sample_flights", Min(SAMPLE_LIMIT, Len(f.rows)))>>
       ELSE counts
              \o <<Count("sample_airports", Min(SAMPLE_LIMIT, Len(a.rows))),
                   Say("no_flight_data_to_display")>>

after_verify_reraise(error) == IF error THEN "failed" ELSE "done"

\* where main continues after verify_data: its except clause catches every
\* query error
after_verify(error) == "done"

is_error(entry) == "cause" \in DOMAIN entry

\* verify_data(): read-only queries
VerifyData ==
    /\ pc = "verify"
    /\ \E up \in BOOLEAN :
         LET report == verify_report(db, up)
         IN /\ log' = log \o report
            /\ pc' = after_verify(is_error(report[Len(report)]))
    /\ UNCHANGED <<airports, flights, clean_airports_data, clean_flights_data,
                   db>>

\* the script is run again: a new process, the same database
RunAgain ==
    /\ pc \in {"done", "failed"}
    /\ pc' = "extract_airports"
    /\ airports' = EmptyFrame
    /\ flights' = EmptyFrame
    /\ clean_airports_data' = EmptyFrame
    /\ clean_flights_data' = EmptyFrame
    /\ log' = <<>>
    /\ UNCHANGED db

\* The database before the first run: each table absent, or created empty by
\* database_setup.sql with the columns the verification queries name.
Init ==
    /\ pc = "extract_airports"
    /\ airports = EmptyFrame
    /\ flights = EmptyFrame
    /\ clean_airports_data = EmptyFrame
    /\ clean_flights_data = EmptyFrame
    /\ db \in [airports : {Absent, Table(airport_expected_columns, <<>>)},
               flights : {Absent, Table(expected_columns, <<>>)}]
    /\ log = <<>>

Next ==
    \/ ExtractAirports
    \/ ExtractFlights
    \/ CleanAirports
    \/ CleanFlights
    \/ LoadToDatabase
    \/ VerifyData
    \/ RunAgain

Spec == Init /\ [][Next]_vars

---------------------------------------------------------------------------
(* Properties of the cleaning functions, checked under SpecClean.  After   *)
(* CleanSample and after CleanAgain, airports / flights hold the frame     *)
(* that was cleaned last and clean_*_data what the cleaning returned.      *)

Cleaned == pc \in {"cleaned", "recleaned"}

\* both coordinates present and within the bounds of the specification
CoordinatesOk(r) ==
    /\ r.latitude.t = "num" /\ r.latitude.p = 0
    /\ r.longitude.t = "num" /\ r.longitude.p = 0
    /\ -90 <= r.latitude.m /\ r.latitude.m <= 90
    /\ -180 <= r.longitude.m /\ r.longitude.m <= 180

Indexes(rows) == [i \in 1..Len(rows) |-> rows[i].index]

\* the row of df labelled idx
RowAt(df, idx) == CHOOSE r \in {df.rows[i] : i \in 1..Len(df.rows)} : r.index = idx

HasRow(df, idx) == \E i \in 1..Len(df.rows) : df.rows[i].index = idx

\* C1: every record of a cleaned airport or flight batch has both
\* coordinates present, -90 <= latitude <= 90 and -180 <= longitude <= 180.
C1_CleanedCoordinatesInBounds ==
    Cleaned =>
        /\ \A i \in 1..Len(clean_airports_data.rows) :
              CoordinatesOk(clean_airports_data.rows[i])
        /\ \A i \in 1..Len(clean_flights_data.rows) :
              CoordinatesOk(clean_flights_data.rows[i])

\* C1 witness: an airport sample with a latitude of 91 beside a good row was
\* cleaned, and only the good row came back.
C1_Witness ==
    /\ pc = "cleaned"
    /\ Len(airports.rows) = 2
    /\ airports.rows[1].latitude = Num(91)
    /\ Indexes(clean_airports_data.rows) = <<1>>

\* C2 as claimed: cleaning a cleaned batch returns it unchanged in every
\* field of every record, flight altitude included.
C2_CleaningIdempotent ==
    pc = "recleaned" =>
        /\ clean_airports_data = airports
        /\ clean_flights_data = flights

\* altitude after one more multiplication by 3.28084
ConvertedAgain(c) ==
    IF c.t = "num" /\ c.m # 0 THEN [t |-> "num", m |-> c.m, p |-> c.p + 1] ELSE c

\* C2 amended: a second cleaning drops no row and changes no field except
\* the flight altitude, which is multiplied by 3.28084 once more (so only an
\* absent or zero altitude stays as it was); airport batches come back
\* identical.
C2_RecleanKeepsAllButAltitude ==
    pc = "recleaned" =>
        /\ clean_airports_data = airports
        /\ clean_flights_data.columns = flights.columns
        /\ Len(clean_flights_data.rows) = Len(flights.rows)
        /\ \A i \in 1..Len(flights.rows) :
              clean_flights_data.rows[i] =
                  [flights.rows[i] EXCEPT !.altitude = ConvertedAgain(@)]

\* C2 witness: a flight of altitude 1000 m was cleaned twice; the first
\* cleaning gave 1000 * 3.28084, the second multiplied that again.
C2_Witness ==
    /\ pc = "recleaned"
    /\ Len(flights.rows) = 2
    /\ flights.rows[1].altitude = [t |-> "num", m |-> 1000, p |-> 1]
    /\ clean_flights_data.rows[1].altitude = [t |-> "num", m |-> 1000, p |-> 2]
    /\ clean_flights_data.rows[2] = flights.rows[2]

\* C3: a non-empty raw flight batch whose column count is not 17 is cleaned
\* to the empty batch: no columns, no rows.
C3_ColumnMismatchVoidsBatch ==
    (Cleaned /\ ~(flights.rows = <<>>) /\ Len(flights.columns) # 17)
        => clean_flights_data = [columns |-> <<>>, rows |-> <<>>]

\* C3 witness: an 18-column batch of two in-range flights was cleaned to
\* the empty batch.
C3_Witness ==
    /\ pc = "cleaned"
    /\ Len(flights.columns) = 18
    /\ Len(flights.rows) = 2
    /\ \A i \in 1..2 : CoordinatesOk(flights.rows[i])
    /\ clean_flights_data = EmptyFrame

SentinelIata == {Str(<<>>), Str(<<"N">>), Str(<<"\\", "N">>)}

\* C7: in a frame with an iata_code column, every in-range airport whose
\* code is "", "N" or "\N" comes back with an absent code, and every other
\* surviving airport keeps its code.
C7_SentinelIataBecomesAbsent ==
    (Cleaned /\ ~empty(airports) /\ has_column(airports, "iata_code")) =>
        \A i \in 1..Len(airports.rows) :
            LET r == airports.rows[i]
            IN CoordinatesOk(r) =>
                 /\ HasRow(clean_airports_data, r.index)
                 /\ RowAt(clean_airports_data, r.index).iata =
                        IF r.iata \in SentinelIata THEN None ELSE r.iata

\* C7 witness: an airport coded "\N" below an airport coded "TST" was
\* cleaned; its code is absent and the other is still "TST".
C7_Witness ==
    /\ pc = "cleaned"
    /\ has_column(airports, "iata_code")
    /\ Len(airports.rows) = 2
    /\ airports.rows[1].iata = Str(<<"T", "S", "T">>)
    /\ airports.rows[2].iata = Str(<<"\\", "N">>)
    /\ Len(clean_airports_data.rows) = 2
    /\ clean_airports_data.rows[1].iata = Str(<<"T", "S", "T">>)
    /\ clean_airports_data.rows[2].iata = None

\* C8: a surviving flight's altitude is the raw altitude times 3.28084 when
\* the raw cell is a number (1000 gives 3280.84), and absent -- not zero --
\* when it is missing or not a number; such a flight is not dropped.
C8_AltitudeInFeet ==
    (pc = "cleaned" /\ ~empty(flights) /\ Len(flights.columns) = 17) =>
        \A i \in 1..Len(flights.rows) :
            LET r == flights.rows[i]
            IN CoordinatesOk(r) =>
                 /\ HasRow(clean_flights_data, r.index)
                 /\ LET a == RowAt(clean_flights_data, r.index).altitude
                    IN IF r.altitude.t = "num"
                       THEN /\ a.t = "num"
                            /\ a.p = (IF r.altitude.m = 0 THEN 0 ELSE 1)
                            /\ ValueE5(a) = r.altitude.m * 328084
                            /\ r.altitude.m = 1000 => ValueE5(a) = 328084000
                       ELSE a = NaN

\* C8 witness: a flight at 1000 m and a flight with a non-numeric altitude
\* were cleaned: 3280.84 ft for the first, an absent altitude for the second.
C8_Witness ==
    /\ pc = "cleaned"
    /\ Len(flights.columns) = 17
    /\ Len(flights.rows) = 2
    /\ flights.rows[1].altitude = Num(1000)
    /\ flights.rows[2].altitude = Str(<<"b", "a", "d">>)
    /\ Len(clean_flights_data.rows) = 2
    /\ ValueE5(clean_flights_data.rows[1].altitude) = 328084000
    /\ clean_flights_data.rows[2].altitude = NaN

\* the frame the next cleaning step reads
CleanInput(sample, cleaned) == IF pc = "sample" THEN sample ELSE cleaned

\* what C10 asks of one cleaning: the argument is left as it was, and the
\* result holds exactly the argument's in-bounds rows, in order, each with
\* the coordinates it had
StableFilter(arg, argAfter, ret) ==
    LET kept == SelectSeq(arg.rows, CoordinatesOk)
    IN /\ argAfter = arg
       /\ Indexes(ret.rows) = Indexes(kept)
       /\ \A i \in 1..Len(kept) :
             /\ ret.rows[i].latitude = kept[i].latitude
             /\ ret.rows[i].longitude = kept[i].longitude

\* C10: for a non-empty batch with the expected schema (airports: latitude
\* and longitude columns; flights: 17 columns) a cleaning returns exactly the
\* rows with both coordinates present and in bounds, in their original
\* order, none dropped, repeated or moved, and leaves its argument unchanged.
C10_CleaningIsStableFilter ==
    [][(pc \in {"sample", "cleaned"} /\ pc' \in {"cleaned", "recleaned"}) =>
          LET a == CleanInput(airports, clean_airports_data)
              f == CleanInput(flights, clean_flights_data)
          IN /\ (~empty(a) /\ has_column(a, "latitude")
                   /\ has_column(a, "longitude"))
                   => StableFilter(a, airports', clean_airports_data')
             /\ (~empty(f) /\ Len(f.columns) = 17)
                   => StableFilter(f, flights', clean_flights_data')]_vars

\* C10 witness: of a bad-longitude flight followed by a good one, the
\* cleaning returned the second alone, under its own label.
C10_Witness ==
    /\ pc = "cleaned"
    /\ Len(flights.columns) = 17
    /\ Len(flights.rows) = 2
    /\ flights.rows[1].longitude = Num(181)
    /\ flights.rows[2].longitude = Num(180)
    /\ Indexes(clean_flights_data.rows) = <<1>>

---------------------------------------------------------------------------
(* Properties of the pipeline run, checked under Spec *)

Logged(l, msg) == \E i \in 1..Len(l) : l[i].msg = msg

\* the frame is empty for pandas: no columns or no rows
IsEmptyBatch(df) == df.columns = <<>> \/ df.rows = <<>>

\* the table holds the batch: its columns, and its records in the same order,
\* each with the batch's cells (the row labels are not written)
Mirrors(table, df) ==
    /\ table.t = "table"
    /\ table.columns = df.columns
    /\ Len(table.rows) = Len(df.rows)
    /\ \A i \in 1..Len(df.rows) :
          /\ DOMAIN table.rows[i] = DOMAIN df.rows[i] \ {"index"}
          /\ \A f \in DOMAIN table.rows[i] : table.rows[i][f] = df.rows[i][f]

\* C4: a load_to_database call with an empty flight batch leaves the flights
\* table exactly as it was, whatever earlier runs put there.
C4_EmptyFlightsSkipLoad ==
    [][(pc = "load" /\ IsEmptyBatch(clean_flights_data))
          => db'.flights = db.flights]_vars

\* C4 witness: a run whose flight batch was empty has gone through the load,
\* and the flights table still holds the two flights of an earlier run.
C4_Witness ==
    /\ pc = "verify"
    /\ IsEmptyBatch(clean_flights_data)
    /\ Logged(log, "no_flight_data_to_load")
    /\ db.flights.t = "table"
    /\ Len(db.flights.rows) = 2

\* C5: after a load_to_database call without a write error the airports
\* table holds exactly the airport batch, in order, zero rows for an empty
\* batch; and the flights table holds exactly the flight batch when that
\* batch is not empty.
C5_LoadReplacesTables ==
    [][(pc = "load" /\ ~Logged(log', "load_error")) =>
          /\ Mirrors(db'.airports, clean_airports_data)
          /\ ~IsEmptyBatch(clean_flights_data)
                => Mirrors(db'.flights, clean_flights_data)]_vars

\* C5 witness: a load without error of two airports and one flight over
\* tables that held rows before; the tables hold that batch and nothing else.
C5_Witness ==
    /\ pc = "verify"
    /\ ~Logged(log, "load_error")
    /\ Len(clean_airports_data.rows) = 2
    /\ clean_airports_data.rows[1].iata = Str(<<"\\", "N">>)
    /\ Len(db.airports.rows) = 2
    /\ db.airports.rows[1].iata = Str(<<"\\", "N">>)
    /\ db.airports.rows[2].iata = Str(<<"T", "S", "T">>)
    /\ Len(clean_flights_data.rows) = 1
    /\ Len(db.flights.rows) = 1

\* C6: no source failure and no persistence failure aborts the run: each
\* extraction hands over to the next stage, load_to_database returns to main
\* and verify_data follows, verify_data returns and the run ends; only the
\* KeyError of clean_airports on a frame without coordinate columns reaches
\* main's handler.
C6_FailuresNeverAbort ==
    [][/\ pc = "extract_airports" => pc' = "extract_flights"
       /\ pc = "extract_flights" => pc' = "clean_airports"
       /\ pc = "load" => pc' = "verify"
       /\ pc = "verify" => pc' = "done"
       /\ pc' = "failed" =>
             /\ pc = "clean_airports"
             /\ ~IsEmptyBatch(airports)
             /\ ~has_column(airports, "latitude")]_vars

\* C6 witness: a run in which the airport file, the flight feed, the load
\* and the verification all failed has reached its end.
C6_Witness ==
    /\ pc = "done"
    /\ Logged(log, "airport_read_error")
    /\ Logged(log, "flight_error")
    /\ Logged(log, "load_error")
    /\ Logged(log, "verify_error")

\* what the last step added to the log
Printed(before, after) == SubSeq(after, Len(before) + 1, Len(after))

\* C9: verify_data returns to main with both tables unchanged whatever their
\* state; when the database answers, the count of an existing table is
\* printed as a plain line even if it is zero, and with both tables present
\* under the queried columns nothing is reported as an error; every failure
\* is a line of the report.
C9_VerifyReportsWithoutRaising ==
    [][pc = "verify" =>
          LET report == Printed(log, log')
              answered == \A i \in 1..Len(report) :
                             is_error(report[i]) => report[i].cause # "connection"
          IN /\ db' = db
             /\ pc' = "done"
             /\ Len(report) >= 1
             /\ \A i \in 1..Len(report) - 1 : ~is_error(report[i])
             /\ (answered /\ db.airports.t = "table") =>
                   report[1] = [msg |-> "airports_count",
                                n |-> Len(db.airports.rows)]
             /\ (answered /\ db.airports.t = "table" /\ db.flights.t = "table") =>
                   /\ report[2] = [msg |-> "flights_count",
                                   n |-> Len(db.flights.rows)]
                   /\ (has_columns(db.airports, {"name", "city", "country"})
                         /\ (Len(db.flights.rows) > 0 =>
                               has_columns(db.flights, {"callsign",
                                   "origin_country", "altitude"})))
                         => ~is_error(report[Len(report)])
                   /\ (has_columns(db.airports, {"name", "city", "country"})
                         /\ Len(db.flights.rows) = 0)
                         => report[Len(report)] =
                               [msg |-> "no_flight_data_to_display"]]_vars

\* C9 witness: both tables exist without rows and the verification has
\* printed both zero counts and no error.
C9_Witness ==
    /\ pc = "done"
    /\ db.airports.t = "table" /\ db.airports.rows = <<>>
    /\ db.flights.t = "table" /\ db.flights.rows = <<>>
    /\ \E i \in 1..Len(log) : log[i] = [msg |-> "airports_count", n |-> 0]
    /\ \E i \in 1..Len(log) : log[i] = [msg |-> "flights_count", n |-> 0]
    /\ Logged(log, "no_flight_data_to_display")
    /\ ~Logged(log, "verify_error")

\* C11 as claimed: once main has loaded an airport batch read under the
\* 14-column positional schema, no row of the airports table carries "", "N"
\* or "\N" as its IATA code.
C11_NoSentinelPersisted ==
    (pc \in {"verify", "done"}
        /\ airports.columns = airport_expected_columns
        /\ Logged(log, "loaded_airports_to_db"))
      => \A i \in 1..Len(db.airports.rows) :
            db.airports.rows[i].iata \notin SentinelIata

\* C12: in a load_to_database call the airports write comes first: the
\* flights table changes, or a flights write is reported, only after the
\* airports table was written in full; and when the airports write fails
\* the flights write is not attempted, so the flights table stays as it was
\* even for a non-empty flight batch, the error is the only line printed
\* and the call returns to main.
C12_AirportsWriteFirst ==
    [][pc = "load" =>
          LET printed == Printed(log, log')
              airportsFailed ==
                  \E i \in 1..Len(printed) :
                      printed[i] = [msg |-> "load_error", cause |-> "airports"]
              flightsTouched ==
                  \/ db'.flights # db.flights
                  \/ Logged(printed, "loaded_flights_to_db")
                  \/ \E i \in 1..Len(printed) :
                        printed[i] = [msg |-> "load_error", cause |-> "flights"]
          IN /\ airportsFailed =>
                   /\ db'.flights = db.flights
                   /\ printed = <<[msg |-> "load_error", cause |-> "airports"]>>
                   /\ pc' = "verify"
             /\ flightsTouched =>
                   /\ ~airportsFailed
                   /\ printed[1] = [msg |-> "loaded_airports_to_db",
                                    n |-> Len(clean_airports_data.rows)]
                   /\ Mirrors(db'.airports, clean_airports_data)]_vars

\* C12 witness: the airports write of a run with two cleaned flights failed;
\* the error is the last line printed, the run is at the verification and
\* there is still no flights table.
C12_Witness ==
    /\ pc = "verify"
    /\ log[Len(log)] = [msg |-> "load_error", cause |-> "airports"]
    /\ Len(clean_flights_data.rows) = 2
    /\ db.flights = Absent

====
